---- MODULE Spec2Model ----
(***************************************************************************)
(* Hierarchical Task & Resource Context Engine of text2tasks.              *)
(*                                                                         *)
(* The model follows src/src/services/task_hierarchy_service.py over the   *)
(* tasks table of src/src/database.py.  A row of the table is a record     *)
(* [code, parent, level, path, progress]; the table is a function from the *)
(* ids of the stored rows to their records.                                *)
(*                                                                         *)
(* Task codes follow the convention of the repository ([A-Z]+-\d+, as in   *)
(* "PROJ-001" and the generated "TASK-003"): they hold no "/" and no LIKE  *)
(* wildcard.  Under that convention a materialized path                    *)
(* "PROJ-001/DEV-001" is exactly the sequence <<"PROJ-001", "DEV-001">>    *)
(* of its "/"-separated segments, string concatenation with "/" is Append, *)
(* and the LIKE 'p/%' query is the strict-prefix test on sequences.        *)
(***************************************************************************)
EXTENDS Integers, Sequences, FiniteSets, TLC

VARIABLES
    tasks,   \* the committed rows of the tasks table: id -> row
    last,    \* the last call: its kind, the row it wrote (0: none), the code
             \* passed to a create, and what it returned
    sess,    \* the unit of work of a call in progress (step-wise specification)
    deps,    \* the rows of task_dependencies, in the order of their ids
    docs,    \* the documents table: resource id -> assignment_status
    edges,   \* the rows of document_tasks: [doc, task, inherited]
    work     \* two callers running one operation each at the same time

vars == <<tasks, last, sess, deps, docs, edges, work>>

\* the tables and callers the hierarchy operations never touch
beside == <<deps, docs, edges, work>>

\* ----------------------------------------------------------------- bounds
MaxId == 3          \* ids the store hands out are 1..MaxId
MaxLevel == 2       \* deepest task_level explored
MaxDeps == 4        \* rows of task_dependencies explored
MaxDoc == 1         \* ids of the documents are 1..MaxDoc
MaxList == 2        \* longest task_ids list passed to an assignment
MaxEdges == 2       \* rows of document_tasks explored
CtxDocs == 2        \* documents of the stores a context is assembled on
CtxEdges == 3       \* rows of document_tasks of those stores
MaxTopK == 2        \* largest top_k asked for
GraphEdges == 3     \* rows of the tables a filtered graph is built on

\* -------------------------------------------------------------- constants
NoParent == 0       \* parent_task_id None (and 0: `if parent_task_id:` is falsy for both)
MinProgress == 0
MaxProgress == 100

\* the explicit codes callers pass; "" is the omitted code
Codes == {"TASK-002"}
NoCode == ""
\* the progress values callers pass (101 is out of range)
ProgressInputs == {0, 25, 100, 101}

Idle == [pc |-> "idle"]

\* ------------------------------------------------------------ the table
Ids(T) == DOMAIN T

MaxOf(S) == CHOOSE m \in S : \A x \in S : x <= m

Range(q) == {q[i] : i \in 1..Len(q)}

\* INTEGER PRIMARY KEY of the store: one more than the largest stored id
NextId(T) == IF Ids(T) = {} THEN 1 ELSE MaxOf(Ids(T)) + 1

Pad3(n) == IF n < 10 THEN "00" \o ToString(n)
           ELSE IF n < 100 THEN "0" \o ToString(n)
           ELSE ToString(n)

\* f"TASK-{count + 1:03d}" over SELECT COUNT(*) + 1 FROM tasks
GenCode(T) == "TASK-" \o Pad3(Cardinality(Ids(T)) + 1)

\* the existence test left out
CodeExists_skipped(T, code) == FALSE

\* Task.task_code == code
CodeExists(T, code) == \E i \in Ids(T) : T[i].code = code

\* path LIKE 'prefix/%'
Like(prefix, path) ==
    /\ Len(path) > Len(prefix)
    /\ SubSeq(path, 1, Len(prefix)) = prefix

get_task_children(T, task_id) == {c \in Ids(T) : T[c].parent = task_id}

get_task_descendants(T, task_id) ==
    IF task_id \notin Ids(T) THEN {}
    ELSE {d \in Ids(T) : Like(T[task_id].path, T[d].path)}

Remove(T, gone) == [i \in Ids(T) \ gone |-> T[i]]

Put(T, id, row) == [i \in Ids(T) \cup {id} |-> IF i = id THEN row ELSE T[i]]

WithinBounds(T) == \A i \in Ids(T) : T[i].level <= MaxLevel

\* --------------------------------------------------------------- create
\* the row create_task adds for an accepted call
NewTaskRow(T, parent_task_id, code) ==
    [code     |-> code,
     parent   |-> parent_task_id,
     level    |-> IF parent_task_id # NoParent THEN T[parent_task_id].level + 1 ELSE 0,
     path     |-> IF parent_task_id # NoParent
                  THEN Append(T[parent_task_id].path, code)
                  ELSE <<code>>,
     progress |-> 0,
     status   |-> "new"]

create_task(parent_task_id, task_code) ==
    LET code == IF task_code = NoCode THEN GenCode(tasks) ELSE task_code
        call == [op |-> "create", id |-> 0, code |-> task_code, res |-> "ok"]
    IN  /\ sess = Idle
        /\ UNCHANGED <<sess, beside>>
        /\ IF CodeExists(tasks, code)
           THEN /\ last' = [call EXCEPT !.res = "Conflict"]
                /\ UNCHANGED tasks
           ELSE IF parent_task_id # NoParent /\ parent_task_id \notin Ids(tasks)
           THEN /\ last' = [call EXCEPT !.res = "NotFound"]
                /\ UNCHANGED tasks
           ELSE /\ NextId(tasks) <= MaxId
                /\ tasks' = Put(tasks, NextId(tasks), NewTaskRow(tasks, parent_task_id, code))
                /\ WithinBounds(tasks')
                /\ last' = [call EXCEPT !.id = NextId(tasks)]

\* ----------------------------------------------------------------- move
\* move_task with the descendants' levels left as they were
move_task_rows_stale_level(T, task_id, new_parent_id) ==
    LET task        == T[task_id]
        old_path    == task.path
        new_level   == IF new_parent_id # NoParent THEN T[new_parent_id].level + 1 ELSE 0
        new_path    == IF new_parent_id # NoParent
                       THEN Append(T[new_parent_id].path, task.code)
                       ELSE <<task.code>>
        descendants == {d \in Ids(T) : Like(old_path, T[d].path)}
    IN  [i \in Ids(T) |->
            IF i = task_id
            THEN [T[i] EXCEPT !.parent = new_parent_id,
                              !.level  = new_level,
                              !.path   = new_path]
            ELSE IF i \in descendants
            THEN [T[i] EXCEPT !.path  = new_path \o SubSeq(T[i].path, Len(old_path) + 1,
                                                           Len(T[i].path))]
            ELSE T[i]]

\* move_task with the descendants' paths left as they were
move_task_rows_stale_path(T, task_id, new_parent_id) ==
    LET task        == T[task_id]
        old_path    == task.path
        old_level   == task.level
        new_level   == IF new_parent_id # NoParent THEN T[new_parent_id].level + 1 ELSE 0
        new_path    == IF new_parent_id # NoParent
                       THEN Append(T[new_parent_id].path, task.code)
                       ELSE <<task.code>>
        level_diff  == new_level - old_level
        descendants == {d \in Ids(T) : Like(old_path, T[d].path)}
    IN  [i \in Ids(T) |->
            IF i = task_id
            THEN [T[i] EXCEPT !.parent = new_parent_id,
                              !.level  = new_level,
                              !.path   = new_path]
            ELSE IF i \in descendants
            THEN [T[i] EXCEPT !.level = @ + level_diff]
            ELSE T[i]]

\* the rows after the commit of an accepted move_task(task_id, new_parent_id)
move_task_rows(T, task_id, new_parent_id) ==
    LET task        == T[task_id]
        old_path    == task.path
        old_level   == task.level
        \* new_parent is re-read after task.parent_task_id is set; for
        \* new_parent_id = task_id it is the task object itself, whose level
        \* and path still hold the old values
        new_level   == IF new_parent_id # NoParent THEN T[new_parent_id].level + 1 ELSE 0
        new_path    == IF new_parent_id # NoParent
                       THEN Append(T[new_parent_id].path, task.code)
                       ELSE <<task.code>>
        level_diff  == new_level - old_level
        \* autoflush is off: the LIKE query sees the committed paths
        descendants == {d \in Ids(T) : Like(old_path, T[d].path)}
    IN  [i \in Ids(T) |->
            IF i = task_id
            THEN [T[i] EXCEPT !.parent = new_parent_id,
                              !.level  = new_level,
                              !.path   = new_path]
            ELSE IF i \in descendants
            THEN [T[i] EXCEPT !.path  = new_path \o SubSeq(T[i].path, Len(old_path) + 1,
                                                           Len(T[i].path)),
                              !.level = @ + level_diff]
            ELSE T[i]]

\* move_task without the circular-reference test
move_task_check_no_cycle_test(T, task_id, new_parent_id) ==
    IF task_id \notin Ids(T) THEN "NotFound"
    ELSE IF new_parent_id = NoParent THEN "ok"
    ELSE IF new_parent_id \notin Ids(T) THEN "NotFound"
    ELSE "ok"

\* the validation of move_task: "ok" or the error it raises
move_task_check(T, task_id, new_parent_id) ==
    IF task_id \notin Ids(T) THEN "NotFound"
    ELSE IF new_parent_id = NoParent THEN "ok"
    ELSE IF new_parent_id \notin Ids(T) THEN "NotFound"
    ELSE IF new_parent_id \in get_task_descendants(T, task_id) THEN "InvalidOperation"
    ELSE "ok"

\* move_task without the circular-reference test (explored while the moved
\* task itself stays within MaxLevel)
move_task_no_cycle_test(task_id, new_parent_id) ==
    LET res == move_task_check_no_cycle_test(tasks, task_id, new_parent_id)
    IN  /\ sess = Idle
        /\ UNCHANGED <<sess, beside>>
        /\ last' = [op |-> "move", id |-> IF res = "ok" THEN task_id ELSE 0,
                    code |-> NoCode, res |-> res]
        /\ IF res = "ok"
           THEN /\ tasks' = move_task_rows(tasks, task_id, new_parent_id)
                /\ tasks'[task_id].level <= MaxLevel
           ELSE UNCHANGED tasks

move_task(task_id, new_parent_id) ==
    LET res == move_task_check(tasks, task_id, new_parent_id)
    IN  /\ sess = Idle
        /\ UNCHANGED <<sess, beside>>
        /\ last' = [op |-> "move", id |-> IF res = "ok" THEN task_id ELSE 0,
                    code |-> NoCode, res |-> res]
        /\ IF res = "ok"
           THEN /\ tasks' = move_task_rows(tasks, task_id, new_parent_id)
                /\ WithinBounds(tasks')
           ELSE UNCHANGED tasks

\* ---------------------------------------------------- move, step by step
\* The same move_task as the statements of one call on one session: the
\* validation, the rewrite of the task, the rewrite of each descendant and
\* the commit; sess.dirty holds the rows changed in the session and not yet
\* written.

\* lines 148-161: the lookups and the circular-reference test
move_begin(task_id, new_parent_id) ==
    LET res == move_task_check(tasks, task_id, new_parent_id)
    IN  /\ sess = Idle
        /\ UNCHANGED <<tasks, beside>>
        /\ IF res = "ok"
           THEN /\ sess' = [pc |-> "set_task", task_id |-> task_id,
                            new_parent_id |-> new_parent_id,
                            old_path |-> tasks[task_id].path,
                            level_diff |-> 0, dirty |-> <<>>, todo |-> {}]
                /\ UNCHANGED last
           ELSE /\ last' = [op |-> "move", id |-> 0, code |-> NoCode, res |-> res]
                /\ UNCHANGED sess

\* the task's row written to the store as soon as it is rewritten
move_set_task_autocommit ==
    /\ sess.pc = "set_task"
    /\ LET T   == tasks
           t   == sess.task_id
           np  == sess.new_parent_id
           row == [T[t] EXCEPT
                      !.parent = np,
                      !.level  = IF np # NoParent THEN T[np].level + 1 ELSE 0,
                      !.path   = IF np # NoParent THEN Append(T[np].path, T[t].code)
                                 ELSE <<T[t].code>>]
       IN  /\ sess' = [sess EXCEPT !.pc = "rewrite",
                                   !.level_diff = row.level - T[t].level,
                                   !.dirty = Put(<<>>, t, row),
                                   !.todo = {d \in Ids(T) : Like(sess.old_path, T[d].path)}]
           /\ tasks' = Put(tasks, t, row)
    /\ UNCHANGED <<last, beside>>

\* lines 164-181: the task's parent, level and path are set on the session
\* object and the descendants are queried; nothing is written
move_set_task ==
    /\ sess.pc = "set_task"
    /\ LET T   == tasks
           t   == sess.task_id
           np  == sess.new_parent_id
           row == [T[t] EXCEPT
                      !.parent = np,
                      !.level  = IF np # NoParent THEN T[np].level + 1 ELSE 0,
                      !.path   = IF np # NoParent THEN Append(T[np].path, T[t].code)
                                 ELSE <<T[t].code>>]
       IN  sess' = [sess EXCEPT !.pc = "rewrite",
                               !.level_diff = row.level - T[t].level,
                               !.dirty = Put(<<>>, t, row),
                               !.todo = {d \in Ids(T) : Like(sess.old_path, T[d].path)}]
    /\ UNCHANGED <<tasks, last, beside>>

\* lines 183-189: one turn of the loop over the descendants
move_rewrite(d) ==
    /\ sess.pc = "rewrite"
    /\ d \in sess.todo
    /\ LET new_path == sess.dirty[sess.task_id].path
           row == [tasks[d] EXCEPT
                      !.path  = new_path \o SubSeq(tasks[d].path, Len(sess.old_path) + 1,
                                                   Len(tasks[d].path)),
                      !.level = @ + sess.level_diff]
       IN  sess' = [sess EXCEPT !.dirty = Put(sess.dirty, d, row),
                               !.todo = sess.todo \ {d}]
    /\ UNCHANGED <<tasks, last, beside>>

\* the rows of the store once the session's changes are committed
commit_rows(T, dirty) ==
    [i \in Ids(T) |-> IF i \in DOMAIN dirty THEN dirty[i] ELSE T[i]]

\* line 191: the one commit of the call
move_commit ==
    /\ sess.pc = "rewrite"
    /\ sess.todo = {}
    /\ tasks' = commit_rows(tasks, sess.dirty)
    /\ WithinBounds(tasks')
    /\ sess' = Idle
    /\ last' = [op |-> "move", id |-> sess.task_id, code |-> NoCode, res |-> "ok"]
    /\ UNCHANGED beside

\* the call ends before its commit (an exception, a crash, a closed
\* request): the session is dropped and the store rolls the transaction back
move_interrupt ==
    /\ sess.pc # "idle"
    /\ sess' = Idle
    /\ UNCHANGED <<tasks, beside>>
    /\ last' = [op |-> "move", id |-> 0, code |-> NoCode, res |-> "interrupted"]

\* --------------------------------------------------------------- delete
delete_task_check(T, task_id, cascade) ==
    IF task_id \notin Ids(T) THEN "False"
    ELSE IF ~cascade /\ get_task_children(T, task_id) # {} THEN "InvalidOperation"
    ELSE "ok"

\* delete_task with the descendants left in the table
delete_task_rows_task_only(T, task_id, cascade) == Remove(T, {task_id})

delete_task_rows(T, task_id, cascade) ==
    IF cascade
    THEN Remove(T, get_task_descendants(T, task_id) \cup {task_id})
    ELSE Remove(T, {task_id})

\* the unit of work empties Task.assigned_documents of every deleted task:
\* the document_tasks rows of the tasks that are gone are deleted with them
delete_task_edges(E, T) == {e \in E : e.task \in Ids(T)}

\* the documents and task_dependencies tables are not written: the sqlite
\* store does not enforce the foreign keys of task_dependencies
delete_task(task_id, cascade) ==
    LET res == delete_task_check(tasks, task_id, cascade)
    IN  /\ sess = Idle
        /\ UNCHANGED <<sess, deps, docs, work>>
        /\ last' = [op |-> "delete", id |-> IF res = "ok" THEN task_id ELSE 0,
                    code |-> NoCode, res |-> res]
        /\ IF res = "ok"
           THEN /\ tasks' = delete_task_rows(tasks, task_id, cascade)
                /\ edges' = delete_task_edges(edges, tasks')
           ELSE UNCHANGED <<tasks, edges>>

\* ------------------------------------------------------------- progress
RECURSIVE SumProgress(_, _)
\* sum(child.progress_percentage or 0 for child in children)
SumProgress(T, S) ==
    IF S = {} THEN 0
    ELSE LET c == CHOOSE x \in S : TRUE
         IN  T[c].progress + SumProgress(T, S \ {c})

\* what calculate_progress(task_id) returns
calculate_progress_value(T, task_id) ==
    LET children == get_task_children(T, task_id)
    IN  IF task_id \notin Ids(T) THEN 0
        ELSE IF children = {} THEN T[task_id].progress
        ELSE SumProgress(T, children) \div Cardinality(children)

\* the rows after calculate_progress(task_id): a task with children stores
\* the value, a leaf or a missing task changes nothing
calculate_progress_rows(T, task_id) ==
    IF task_id \in Ids(T) /\ get_task_children(T, task_id) # {}
    THEN [T EXCEPT ![task_id].progress = calculate_progress_value(T, task_id)]
    ELSE T

calculate_progress(task_id) ==
    /\ sess = Idle
    /\ UNCHANGED <<sess, beside>>
    /\ tasks' = calculate_progress_rows(tasks, task_id)
    /\ last' = [op |-> "calculate", id |-> task_id, code |-> NoCode, res |-> "ok"]

update_task_progress_check(T, task_id, progress) ==
    IF ~(MinProgress <= progress /\ progress <= MaxProgress) THEN "InvalidArgument"
    ELSE IF task_id \notin Ids(T) THEN "NotFound"
    ELSE "ok"

\* the rows after an accepted update_task_progress: the task stores the
\* value, then its parent (if any) is recalculated once
update_task_progress_rows(T, task_id, progress) ==
    LET stored == [T EXCEPT ![task_id].progress = progress]
    IN  IF T[task_id].parent # NoParent
        THEN calculate_progress_rows(stored, T[task_id].parent)
        ELSE stored

update_task_progress(task_id, progress) ==
    LET res == update_task_progress_check(tasks, task_id, progress)
    IN  /\ sess = Idle
        /\ UNCHANGED <<sess, beside>>
        /\ last' = [op |-> "progress", id |-> IF res = "ok" THEN task_id ELSE 0,
                    code |-> NoCode, res |-> res]
        /\ IF res = "ok"
           THEN tasks' = update_task_progress_rows(tasks, task_id, progress)
           ELSE UNCHANGED tasks

\* --------------------------------------------------------------- status
Statuses == {"new", "in_progress", "blocked", "done"}
NoStatus == ""      \* the status field left out of the request body

\* valid_transitions.get(current_status, [])
valid_transitions(current_status) ==
    CASE current_status = "new"         -> {"in_progress", "blocked"}
      [] current_status = "in_progress" -> {"done", "blocked"}
      [] current_status = "blocked"     -> {"in_progress"}
      [] OTHER                          -> {}

validate_status_transition(current_status, new_status) ==
    IF current_status = new_status THEN TRUE
    ELSE new_status \in valid_transitions(current_status)

\* PATCH /tasks/{task_id} of src/routes/tasks.py; other_fields tells whether
\* the body carries an owner or a due date
update_task_route(task_id, status, other_fields) ==
    LET res == IF task_id \notin Ids(tasks) THEN "NotFound"
               ELSE IF status # NoStatus /\ status # tasks[task_id].status
                       /\ ~validate_status_transition(tasks[task_id].status, status)
               THEN "InvalidArgument"
               ELSE "ok"
    IN  /\ sess = Idle
        /\ UNCHANGED <<sess, beside>>
        /\ last' = [op |-> "update", id |-> task_id, code |-> NoCode, res |-> res,
                    status |-> status]
        /\ IF res = "ok" /\ status # NoStatus
           THEN tasks' = [tasks EXCEPT ![task_id].status = status]
           ELSE UNCHANGED tasks

\* PATCH /api/v1/tasks/{task_id}: TaskService.update_task of the domain
\* layer, then TaskRepository.update; the status is checked against the list
\* of allowed values (which the request schema already enforces)
update_task_v1(task_id, status, other_fields) ==
    LET changed == status # NoStatus /\ task_id \in Ids(tasks)
                      /\ status # tasks[task_id].status
        res == IF task_id \notin Ids(tasks) THEN "NotFound"
               ELSE IF ~changed /\ ~other_fields THEN "InvalidArgument"
               ELSE "ok"
    IN  /\ sess = Idle
        /\ UNCHANGED <<sess, beside>>
        /\ last' = [op |-> "update_v1", id |-> task_id, code |-> NoCode, res |-> res,
                    status |-> status]
        /\ IF res = "ok" /\ changed
           THEN tasks' = [tasks EXCEPT ![task_id].status = status]
           ELSE UNCHANGED tasks

\* ------------------------------------------------ progress, step by step
\* The same update_task_progress as the statements of one call: the
\* validation and the lookup, the store of the value with its commit, and
\* calculate_progress of the parent with a commit of its own.

\* lines 220-225: the range test and the lookup
progress_begin(task_id, progress) ==
    LET res == update_task_progress_check(tasks, task_id, progress)
    IN  /\ sess = Idle
        /\ UNCHANGED <<tasks, beside>>
        /\ IF res = "ok"
           THEN /\ sess' = [pc |-> "store", task_id |-> task_id, progress |-> progress]
                /\ UNCHANGED last
           ELSE /\ last' = [op |-> "progress", id |-> 0, code |-> NoCode, res |-> res]
                /\ UNCHANGED sess

\* lines 227-228: the value is set and committed; a task without parent is
\* done
progress_store ==
    /\ sess.pc = "store"
    /\ tasks' = [tasks EXCEPT ![sess.task_id].progress = sess.progress]
    /\ IF tasks[sess.task_id].parent # NoParent
       THEN /\ sess' = [sess EXCEPT !.pc = "recalc"]
            /\ UNCHANGED last
       ELSE /\ sess' = Idle
            /\ last' = [op |-> "progress", id |-> sess.task_id, code |-> NoCode,
                        res |-> "ok"]
    /\ UNCHANGED beside

\* lines 231-232: calculate_progress(task.parent_task_id), which commits
progress_recalc ==
    /\ sess.pc = "recalc"
    /\ tasks' = calculate_progress_rows(tasks, tasks[sess.task_id].parent)
    /\ sess' = Idle
    /\ last' = [op |-> "progress", id |-> sess.task_id, code |-> NoCode, res |-> "ok"]
    /\ UNCHANGED beside

\* the call ends between two of its statements (an exception, a crash, a
\* closed request): what was committed stays
progress_interrupt ==
    /\ sess.pc \in {"store", "recalc"}
    /\ sess' = Idle
    /\ UNCHANGED <<tasks, beside>>
    /\ last' = [op |-> "progress", id |-> sess.task_id, code |-> NoCode,
                res |-> "interrupted"]

RECURSIVE ancestors_walk(_, _, _)
\* the while loop of get_task_ancestors: the parents met from current
\* upwards, nearest first; fuel cuts a chain that never reaches a root
ancestors_walk(T, current, fuel) ==
    IF T[current].parent = NoParent \/ fuel = 0 THEN <<>>
    ELSE IF T[current].parent \notin Ids(T) THEN <<>>
    ELSE <<T[current].parent>> \o ancestors_walk(T, T[current].parent, fuel - 1)

RECURSIVE ancestors_walk_ends(_, _, _)
\* the while loop of get_task_ancestors ends: the chain of parents from
\* current reaches a task without parent, or a parent that is not stored,
\* within fuel steps (a chain that returns to a task it left never ends)
ancestors_walk_ends(T, current, fuel) ==
    IF T[current].parent = NoParent \/ T[current].parent \notin Ids(T) THEN TRUE
    ELSE IF fuel = 0 THEN FALSE
    ELSE ancestors_walk_ends(T, T[current].parent, fuel - 1)

\* get_task_ancestors(task_id) returns
get_task_ancestors_returns(T, task_id) ==
    task_id \in Ids(T) => ancestors_walk_ends(T, task_id, Cardinality(Ids(T)))

Reverse(q) == [i \in 1..Len(q) |-> q[Len(q) + 1 - i]]

\* the ancestors of a task, root first
get_task_ancestors(T, task_id) ==
    IF task_id \notin Ids(T) THEN <<>>
    ELSE Reverse(ancestors_walk(T, task_id, Cardinality(Ids(T))))

\* --------------------------------------------------------- dependencies
\* a row of task_dependencies is [dependent, prerequisite]; the rows are kept
\* in the order of their ids, which is the order the queries return them in

DependencyExists(D, dependent_task_id, prerequisite_task_id) ==
    \E i \in 1..Len(D) : /\ D[i].dependent = dependent_task_id
                          /\ D[i].prerequisite = prerequisite_task_id

\* what create_dependency returns
create_dependency_result(T, dependent_task_id, prerequisite_task_id) ==
    IF dependent_task_id = prerequisite_task_id THEN "False"
    ELSE IF dependent_task_id \notin Ids(T) \/ prerequisite_task_id \notin Ids(T)
    THEN "False"
    ELSE "True"

\* create_dependency without the lookup of an existing row
create_dependency_rows_no_lookup(D, dependent_task_id, prerequisite_task_id) ==
    Append(D, [dependent |-> dependent_task_id, prerequisite |-> prerequisite_task_id])

\* the rows after a create_dependency that returned True
create_dependency_rows(D, dependent_task_id, prerequisite_task_id) ==
    IF DependencyExists(D, dependent_task_id, prerequisite_task_id) THEN D
    ELSE Append(D, [dependent |-> dependent_task_id, prerequisite |-> prerequisite_task_id])

\* last.id is the position of the row the call added (0: none)
create_dependency(dependent_task_id, prerequisite_task_id) ==
    LET res == create_dependency_result(tasks, dependent_task_id, prerequisite_task_id)
    IN  /\ sess = Idle
        /\ UNCHANGED <<tasks, sess, docs, edges, work>>
        /\ IF res = "True"
           THEN /\ deps' = create_dependency_rows(deps, dependent_task_id,
                                                  prerequisite_task_id)
                /\ Len(deps') <= MaxDeps
           ELSE UNCHANGED deps
        /\ last' = [op |-> "add_dep", id |-> IF deps' # deps THEN Len(deps') ELSE 0,
                    code |-> NoCode, res |-> res]

\* the rows get_dependency_graph reads: all of them for an empty or omitted
\* task_ids, else those with an end in task_ids
graph_dependencies(D, task_ids) ==
    IF task_ids = {} THEN D
    ELSE SelectSeq(D, LAMBDA d : d.dependent \in task_ids \/ d.prerequisite \in task_ids)

\* graph[node]: the dependents of the rows whose prerequisite is node, in
\* the order of the rows
Neighbors(D, node) ==
    LET rows == SelectSeq(D, LAMBDA d : ToString(d.prerequisite) = node)
    IN  [i \in 1..Len(rows) |-> ToString(rows[i].dependent)]

RECURSIVE GraphKeys(_, _, _)
\* the keys of the adjacency dict in insertion order: each prerequisite at
\* its first row
GraphKeys(D, i, keys) ==
    IF i > Len(D) THEN keys
    ELSE LET k == ToString(D[i].prerequisite)
         IN  GraphKeys(D, i + 1,
                       IF \E j \in 1..Len(keys) : keys[j] = k THEN keys
                       ELSE Append(keys, k))

\* the slice taken from the start of the path
IndexOf_path_start(path, node) == 1

\* path.index(node)
IndexOf(path, node) == CHOOSE i \in 1..Len(path) :
                          /\ path[i] = node
                          /\ \A j \in 1..(i - 1) : path[j] # node

RECURSIVE dfs(_, _, _, _)
RECURSIVE dfs_neighbors(_, _, _, _, _)
\* dfs with the visited test ahead of the rec_stack test
dfs_visited_first(D, node, path, st) ==
    IF node \in st.visited THEN st
    ELSE LET entered == [st EXCEPT !.visited = @ \cup {node},
                                   !.rec_stack = @ \cup {node}]
             left    == dfs_neighbors(D, Neighbors(D, node), 1, Append(path, node), entered)
         IN  [left EXCEPT !.rec_stack = @ \ {node}]

\* the nested dfs(node, path) over visited, rec_stack and cycles (st)
dfs(D, node, path, st) ==
    IF node \in st.rec_stack
    THEN [st EXCEPT !.cycles =
              Append(@, SubSeq(path, IndexOf(path, node), Len(path)) \o <<node>>)]
    ELSE IF node \in st.visited THEN st
    ELSE LET entered == [st EXCEPT !.visited = @ \cup {node},
                                   !.rec_stack = @ \cup {node}]
             left    == dfs_neighbors(D, Neighbors(D, node), 1, Append(path, node), entered)
         IN  [left EXCEPT !.rec_stack = @ \ {node}]

\* for neighbor in graph.get(node, []): dfs(neighbor, path + [node])
dfs_neighbors(D, neighbors, i, path, st) ==
    IF i > Len(neighbors) THEN st
    ELSE dfs_neighbors(D, neighbors, i + 1, path, dfs(D, neighbors[i], path, st))

RECURSIVE dfs_roots(_, _, _, _)
\* for node in graph: if node not in visited: dfs(node, [])
dfs_roots(D, keys, i, st) ==
    IF i > Len(keys) THEN st
    ELSE dfs_roots(D, keys, i + 1,
                   IF keys[i] \in st.visited THEN st ELSE dfs(D, keys[i], <<>>, st))

\* _detect_cycles: the list of the cycles found
detect_cycles(D) ==
    dfs_roots(D, GraphKeys(D, 1, <<>>), 1,
              [visited |-> {}, rec_stack |-> {}, cycles |-> <<>>]).cycles

\* get_dependency_graph: last.cycles is graph["cycles"]
get_dependency_graph(task_ids) ==
    /\ sess = Idle
    /\ UNCHANGED <<tasks, sess, deps, docs, edges, work>>
    /\ last' = [op |-> "graph", id |-> 0, code |-> NoCode, res |-> "ok",
                task_ids |-> task_ids,
                cycles |-> detect_cycles(graph_dependencies(deps, task_ids))]

\* ------------------------------------------------------------ resources
\* a row of document_tasks is [doc, task, inherited]; docs maps the id of a
\* stored document to its assignment_status

\* a document as the ingestion stores it: assignment_status defaults to
\* "unassigned"
add_document ==
    /\ sess = Idle
    /\ NextId(docs) <= MaxDoc
    /\ docs' = Put(docs, NextId(docs), "unassigned")
    /\ last' = [op |-> "ingest", id |-> NextId(docs), code |-> NoCode, res |-> "ok"]
    /\ UNCHANGED <<tasks, sess, deps, edges, work>>

\* SELECT 1 FROM document_tasks WHERE document_id = :doc_id AND task_id = :task_id
EdgeExists(E, doc_id, task_id) == \E e \in E : e.doc = doc_id /\ e.task = task_id

\* SELECT COUNT(*) FROM document_tasks WHERE document_id = :doc_id
EdgesOf(E, doc_id) == {e \in E : e.doc = doc_id}

\* the validation of assign_resource_to_tasks: the resource is looked up,
\* then the number of task rows found for task_ids is compared with the
\* length of the list
assign_resource_check(T, R, resource_id, task_ids) ==
    IF resource_id \notin Ids(R) THEN "NotFound"
    ELSE IF Cardinality(Range(task_ids) \cap Ids(T)) # Len(task_ids) THEN "NotFound"
    ELSE "ok"

RECURSIVE assign_loop(_, _, _, _)
\* the loop over task_ids: st holds the rows, the created and the skipped ids
assign_loop(resource_id, task_ids, i, st) ==
    IF i > Len(task_ids) THEN st
    ELSE assign_loop(resource_id, task_ids, i + 1,
            IF EdgeExists(st.edges, resource_id, task_ids[i])
            THEN [st EXCEPT !.skipped = Append(@, task_ids[i])]
            ELSE [st EXCEPT !.edges = @ \cup {[doc |-> resource_id, task |-> task_ids[i],
                                                inherited |-> FALSE]},
                            !.created = Append(@, task_ids[i])])

assign_resource_to_tasks(resource_id, task_ids) ==
    LET res == assign_resource_check(tasks, docs, resource_id, task_ids)
        st  == assign_loop(resource_id, task_ids, 1,
                           [edges |-> edges, created |-> <<>>, skipped |-> <<>>])
    IN  /\ sess = Idle
        /\ UNCHANGED <<tasks, sess, deps, work>>
        /\ IF res = "ok"
           THEN /\ edges' = st.edges
                /\ Cardinality(edges') <= MaxEdges
                /\ docs' = IF st.created # <<>>
                           THEN [docs EXCEPT ![resource_id] = "assigned"]
                           ELSE docs
                /\ last' = [op |-> "assign", id |-> resource_id, code |-> NoCode,
                            res |-> res, created |-> st.created, skipped |-> st.skipped]
           ELSE /\ UNCHANGED <<edges, docs>>
                /\ last' = [op |-> "assign", id |-> 0, code |-> NoCode,
                            res |-> res, created |-> <<>>, skipped |-> <<>>]

\* unassign_resource_from_task with the status left as it was
unassign_status_stale(R, E, resource_id) == R

\* the status of the resource after its row was deleted
unassign_status(R, E, resource_id) ==
    IF EdgesOf(E, resource_id) = {} /\ resource_id \in Ids(R)
    THEN [R EXCEPT ![resource_id] = "unassigned"]
    ELSE R

unassign_resource_from_task(resource_id, task_id) ==
    /\ sess = Idle
    /\ UNCHANGED <<tasks, sess, deps, work>>
    /\ IF EdgeExists(edges, resource_id, task_id)
       THEN /\ edges' = {e \in edges : ~(e.doc = resource_id /\ e.task = task_id)}
            /\ docs' = unassign_status(docs, edges', resource_id)
            /\ last' = [op |-> "unassign", id |-> resource_id, code |-> NoCode,
                        res |-> "True"]
       ELSE /\ UNCHANGED <<edges, docs>>
            /\ last' = [op |-> "unassign", id |-> 0, code |-> NoCode, res |-> "False"]

\* bulk_archive_resources for one id
archive_resource(resource_id) ==
    /\ sess = Idle
    /\ UNCHANGED <<tasks, sess, deps, edges, work>>
    /\ docs' = IF resource_id \in Ids(docs)
               THEN [docs EXCEPT ![resource_id] = "archived"]
               ELSE docs
    /\ last' = [op |-> "archive", id |-> resource_id, code |-> NoCode, res |-> "ok"]

\* bulk_unarchive_resources for one id: the status follows
\* get_resource_tasks, the rows of document_tasks joined with tasks
unarchive_resource(resource_id) ==
    /\ sess = Idle
    /\ UNCHANGED <<tasks, sess, deps, edges, work>>
    /\ docs' = IF resource_id \in Ids(docs)
               THEN [docs EXCEPT ![resource_id] =
                        IF \E e \in EdgesOf(edges, resource_id) : e.task \in Ids(tasks)
                        THEN "assigned" ELSE "unassigned"]
               ELSE docs
    /\ last' = [op |-> "unarchive", id |-> resource_id, code |-> NoCode, res |-> "ok"]

\* the rows get_inherited_resources returns: SELECT DISTINCT over the
\* columns of the document, of the document_tasks row and the code of its
\* task, for the rows with inherited = FALSE of the ancestors; the order of
\* the rows (assigned_at) is left out
get_inherited_resources(T, R, E, task_id) ==
    LET ancestor_ids == Range(get_task_ancestors(T, task_id))
    IN  {[id |-> e.doc, source_task_code |-> T[e.task].code] :
            e \in {x \in E : /\ x.task \in ancestor_ids
                              /\ ~x.inherited
                              /\ x.doc \in Ids(R)}}

\* the read of the inherited resources of a task; last.rows is the result
read_inherited_resources(task_id) ==
    /\ sess = Idle
    /\ UNCHANGED <<tasks, sess, deps, docs, edges, work>>
    /\ last' = IF get_task_ancestors_returns(tasks, task_id)
               THEN [op |-> "inherited", id |-> task_id, code |-> NoCode, res |-> "ok",
                     rows |-> get_inherited_resources(tasks, docs, edges, task_id)]
               ELSE [op |-> "inherited", id |-> task_id, code |-> NoCode,
                     res |-> "hangs", rows |-> {}]

\* inherit_parent_resources without the lookup of an existing row
inherit_created_no_lookup(T, R, E, task_id) ==
    {r.id : r \in get_inherited_resources(T, R, E, task_id)}

\* the ids of the resources inherit_parent_resources adds a row for
inherit_created(T, R, E, task_id) ==
    {r.id : r \in get_inherited_resources(T, R, E, task_id)}
        \ {e.doc : e \in {x \in E : x.task = task_id}}

\* the call does not return while get_task_ancestors does not
inherit_parent_resources(task_id) ==
    LET created == inherit_created(tasks, docs, edges, task_id)
    IN  /\ sess = Idle
        /\ UNCHANGED <<tasks, sess, deps, docs, work>>
        /\ IF get_task_ancestors_returns(tasks, task_id)
           THEN /\ edges' = edges \cup {[doc |-> r, task |-> task_id,
                                          inherited |-> TRUE] : r \in created}
                /\ Cardinality(edges') <= MaxEdges
                /\ last' = [op |-> "inherit", id |-> task_id, code |-> NoCode,
                            res |-> "ok", created |-> created]
           ELSE /\ UNCHANGED edges
                /\ last' = [op |-> "inherit", id |-> task_id, code |-> NoCode,
                            res |-> "hangs", created |-> {}]

\* ------------------------------------------------------ context assembly
\* _build_context_by_scope: a document of the context is [id, source,
\* similarity].  The queries of the resources order their rows by
\* assigned_at, newest first: newest_first is the rows of document_tasks in
\* that order.  found is what the semantic search returned.
Min(a, b) == IF a < b THEN a ELSE b

Take(q, n) == SubSeq(q, 1, Min(n, Len(q)))

RECURSIVE SortedIds(_)
\* the ids of S in the order the store returns task rows in (by id)
SortedIds(S) ==
    IF S = {} THEN <<>>
    ELSE LET m == CHOOSE x \in S : \A y \in S : x <= y
         IN  <<m>> \o SortedIds(S \ {m})

\* get_task_resources(task_id, include_inherited): the ids of the rows
get_task_resources(R, newest_first, task_id, include_inherited) ==
    LET mine(e) == /\ e.task = task_id
                   /\ e.doc \in Ids(R)
                   /\ (include_inherited \/ ~e.inherited)
        rows == SelectSeq(newest_first, mine)
    IN  [i \in 1..Len(rows) |-> rows[i].doc]

\* get_inherited_resources(task_id) as the list the query returns: one row
\* for each row of document_tasks with inherited = FALSE of an ancestor
inherited_rows(T, R, newest_first, task_id) ==
    LET ancestor_ids == Range(get_task_ancestors(T, task_id))
        theirs(e) == /\ e.task \in ancestor_ids
                     /\ ~e.inherited
                     /\ e.doc \in Ids(R)
        rows == SelectSeq(newest_first, theirs)
    IN  [i \in 1..Len(rows) |-> rows[i].doc]

Tagged(ids, source, similarity) ==
    [i \in 1..Len(ids) |-> [id |-> ids[i], source |-> source, similarity |-> similarity]]

DocIds(documents) == {documents[i].id : i \in 1..Len(documents)}

RECURSIVE add_unseen(_, _, _, _, _, _)
\* the loop `if res["id"] not in seen_ids and len(unique_resources) < top_k`
\* (limit = FALSE: without the length test)
add_unseen(unique, ids, i, similarity, top_k, limit) ==
    IF i > Len(ids) THEN unique
    ELSE add_unseen(
            IF ids[i] \notin DocIds(unique) /\ (~limit \/ Len(unique) < top_k)
            THEN Append(unique, [id |-> ids[i], source |-> "task", similarity |-> similarity])
            ELSE unique,
            ids, i + 1, similarity, top_k, limit)

RECURSIVE add_tasks(_, _, _, _, _, _, _, _)
\* the loop over a list of tasks, each with its direct resources
add_tasks(unique, R, newest_first, task_ids, i, similarity, top_k, limit) ==
    IF i > Len(task_ids) THEN unique
    ELSE add_tasks(
            add_unseen(unique, get_task_resources(R, newest_first, task_ids[i], FALSE),
                       1, similarity, top_k, limit),
            R, newest_first, task_ids, i + 1, similarity, top_k, limit)

RECURSIVE add_general(_, _, _)
\* the loop over the search results of scope inherit: a result whose id is
\* among the documents collected so far is skipped
add_general(all_docs, found, i) ==
    IF i > Len(found) THEN all_docs
    ELSE add_general(
            IF found[i] \notin DocIds(all_docs)
            THEN Append(all_docs, [id |-> found[i], source |-> "general",
                                   similarity |-> "search"])
            ELSE all_docs,
            found, i + 1)

\* lines 167-188
context_self(R, newest_first, task_id, top_k, found) ==
    LET resources == get_task_resources(R, newest_first, task_id, FALSE)
        documents == Tagged(Take(resources, top_k \div 2), "task", "1.0")
    IN  IF Len(documents) < top_k
        THEN documents \o Tagged(Take(found, top_k - Len(documents)), "general", "search")
        ELSE documents

\* lines 190-225
context_subtasks(T, R, newest_first, task_id, top_k) ==
    LET all_task_ids == <<task_id>> \o SortedIds(get_task_children(T, task_id))
    IN  Take(add_tasks(<<>>, R, newest_first, all_task_ids, 1, "1.0", top_k, FALSE), top_k)

\* lines 227-313
context_tree(T, R, newest_first, task_id, top_k) ==
    LET ancestors   == get_task_ancestors(T, task_id)
        descendants == SortedIds(get_task_descendants(T, task_id))
        current     == add_tasks(<<>>, R, newest_first, <<task_id>>, 1, "1.0", top_k, FALSE)
        upward      == add_tasks(current, R, newest_first, Reverse(ancestors), 1, "0.9",
                                 top_k, TRUE)
        downward    == add_tasks(upward, R, newest_first, descendants, 1, "0.8", top_k, TRUE)
    IN  Take(downward, top_k)

\* lines 315-362
context_inherit(T, R, newest_first, task_id, top_k, found) ==
    LET current_resources   == get_task_resources(R, newest_first, task_id, FALSE)
        inherited_resources == inherited_rows(T, R, newest_first, task_id)
        all_docs == Tagged(current_resources, "task", "1.0")
                        \o Tagged(inherited_resources, "inherited", "0.9")
    IN  Take(IF Len(all_docs) < top_k THEN add_general(all_docs, found, 1) ELSE all_docs,
             top_k)

Scopes == {"self", "subtasks", "tree", "inherit"}

build_context_by_scope(T, R, newest_first, task_id, scope, top_k, found) ==
    CASE scope = "self"     -> context_self(R, newest_first, task_id, top_k, found)
      [] scope = "subtasks" -> context_subtasks(T, R, newest_first, task_id, top_k)
      [] scope = "tree"     -> context_tree(T, R, newest_first, task_id, top_k)
      [] scope = "inherit"  -> context_inherit(T, R, newest_first, task_id, top_k, found)

\* the orders the rows of E can have
Orders(E) == {f \in [1..Cardinality(E) -> E] :
                 \A i, j \in 1..Cardinality(E) : i # j => f[i] # f[j]}

\* what the search may return for top_k = n: up to n stored documents
SearchResults(R, n) ==
    UNION {{f \in [1..m -> Ids(R)] : \A i, j \in 1..m : i # j => f[i] # f[j]} : m \in 0..n}

\* one call for the context of a stored task; it reads only
assemble_context(task_id, scope, top_k, newest_first, found) ==
    /\ sess = Idle
    /\ task_id \in Ids(tasks)
    /\ last' = [op |-> "context", id |-> task_id, code |-> NoCode, res |-> "ok",
                scope |-> scope, top_k |-> top_k,
                documents |-> build_context_by_scope(tasks, docs, newest_first, task_id,
                                                     scope, top_k, found)]
    /\ UNCHANGED <<tasks, sess, deps, docs, edges, work>>

\* ------------------------------------------- two callers, the same edge
\* Two requests run the same operation on the same pair at the same time,
\* each on a session of its own.  A call is two steps: its lookups, which
\* read the committed rows, and its INSERT with the commit, which the store
\* runs one at a time.  work is NoRace or the record of the two calls.
Callers == {1, 2}

NoRace == [op |-> "none"]

RaceOver == IF work.op = "none" THEN TRUE ELSE \A c \in Callers : work.pc[c] = "done"

\* the two requests arrive
race_begin(op, x, y) ==
    /\ sess = Idle
    /\ RaceOver
    /\ work' = [op |-> op, x |-> x, y |-> y,
                pc  |-> [c \in Callers |-> "lookup"],
                res |-> [c \in Callers |-> ""]]
    /\ UNCHANGED <<tasks, last, sess, deps, docs, edges>>

\* create_dependency up to the lookup of an existing row (lines 3573-3593)
dependency_lookup(c) ==
    /\ work.op = "add_dep" /\ work.pc[c] = "lookup"
    /\ LET res == create_dependency_result(tasks, work.x, work.y)
       IN  work' = IF res = "False"
                   THEN [work EXCEPT !.pc[c] = "done", !.res[c] = "False"]
                   ELSE IF DependencyExists(deps, work.x, work.y)
                   THEN [work EXCEPT !.pc[c] = "done", !.res[c] = "True"]
                   ELSE [work EXCEPT !.pc[c] = "insert"]
    /\ UNCHANGED <<tasks, last, sess, deps, docs, edges>>

\* db.add and db.commit (lines 3595-3607): the unique index
\* idx_task_dependencies_unique refuses a second row for the pair, the
\* exception is raised again after the rollback
dependency_insert(c) ==
    /\ work.op = "add_dep" /\ work.pc[c] = "insert"
    /\ IF DependencyExists(deps, work.x, work.y)
       THEN /\ work' = [work EXCEPT !.pc[c] = "done", !.res[c] = "IntegrityError"]
            /\ UNCHANGED deps
       ELSE /\ deps' = Append(deps, [dependent |-> work.x, prerequisite |-> work.y])
            /\ Len(deps') <= MaxDeps
            /\ work' = [work EXCEPT !.pc[c] = "done", !.res[c] = "True"]
    /\ UNCHANGED <<tasks, last, sess, docs, edges>>

\* assign_resource_to_tasks(x, [y]) up to the SELECT of an existing row
\* (lines 29-56)
assignment_lookup(c) ==
    /\ work.op = "assign" /\ work.pc[c] = "lookup"
    /\ LET res == assign_resource_check(tasks, docs, work.x, <<work.y>>)
       IN  work' = IF res # "ok"
                   THEN [work EXCEPT !.pc[c] = "done", !.res[c] = res]
                   ELSE IF EdgeExists(edges, work.x, work.y)
                   THEN [work EXCEPT !.pc[c] = "done", !.res[c] = "ok"]
                   ELSE [work EXCEPT !.pc[c] = "insert"]
    /\ UNCHANGED <<tasks, last, sess, deps, docs, edges>>

\* the INSERT, the status and the commit (lines 58-77): the
\* UniqueConstraint of document_tasks refuses a second row for the pair and
\* nothing catches the exception
assignment_insert(c) ==
    /\ work.op = "assign" /\ work.pc[c] = "insert"
    /\ IF EdgeExists(edges, work.x, work.y)
       THEN /\ work' = [work EXCEPT !.pc[c] = "done", !.res[c] = "IntegrityError"]
            /\ UNCHANGED <<edges, docs>>
       ELSE /\ edges' = edges \cup {[doc |-> work.x, task |-> work.y, inherited |-> FALSE]}
            /\ Cardinality(edges') <= MaxEdges
            /\ docs' = [docs EXCEPT ![work.x] = "assigned"]
            /\ work' = [work EXCEPT !.pc[c] = "done", !.res[c] = "ok"]
    /\ UNCHANGED <<tasks, last, sess, deps>>

\* ------------------------------------------------ two callers, two moves
\* Two move_task calls at the same time, each on a session of its own.  A
\* call reads the rows it needs (no lock is taken, no row is versioned),
\* rewrites its session objects and flushes them at its one commit; work
\* holds the tree when the two requests arrived (base), the arguments of each
\* call and the rows each session loaded (seen).
\* The two requests arrive; one pair of simultaneous moves is explored in a
\* behaviour, on a tree that create_task built.
race_move_begin(a1, a2) ==
    /\ sess = Idle
    /\ work = NoRace
    /\ work' = [op |-> "move", base |-> tasks,
                arg  |-> <<a1, a2>>,
                pc   |-> [c \in Callers |-> "lookup"],
                seen |-> [c \in Callers |-> <<>>],
                res  |-> [c \in Callers |-> ""]]
    /\ UNCHANGED <<tasks, last, sess, deps, docs, edges>>

\* lines 148-189: the lookups, the circular-reference test and the rewrite
\* of the session objects, all on the rows as this session loads them
race_move_read(c) ==
    /\ work.op = "move" /\ work.pc[c] = "lookup"
    /\ LET res == move_task_check(tasks, work.arg[c].task_id, work.arg[c].new_parent_id)
       IN  work' = IF res = "ok"
                   THEN [work EXCEPT !.pc[c] = "commit", !.seen[c] = tasks]
                   ELSE [work EXCEPT !.pc[c] = "done", !.res[c] = res]
    /\ UNCHANGED <<tasks, last, sess, deps, docs, edges>>

\* the flush of a session: one UPDATE by primary key for each object with a
\* changed attribute, setting the attributes whose value differs from the
\* loaded one
flush_rows(T, loaded, new) ==
    [i \in Ids(T) |->
        IF i \in Ids(loaded)
        THEN [T[i] EXCEPT
                !.parent = IF new[i].parent # loaded[i].parent THEN new[i].parent ELSE @,
                !.level  = IF new[i].level # loaded[i].level THEN new[i].level ELSE @,
                !.path   = IF new[i].path # loaded[i].path THEN new[i].path ELSE @]
        ELSE T[i]]

\* line 191: the commit of the call
race_move_commit(c) ==
    /\ work.op = "move" /\ work.pc[c] = "commit"
    /\ LET loaded == work.seen[c]
           new    == move_task_rows(loaded, work.arg[c].task_id, work.arg[c].new_parent_id)
       IN  tasks' = flush_rows(tasks, loaded, new)
    /\ WithinBounds(tasks')
    /\ work' = [work EXCEPT !.pc[c] = "done", !.res[c] = "ok", !.seen[c] = <<>>]
    /\ UNCHANGED <<last, sess, deps, docs, edges>>

\* a task created while no move is running
create_between_races(parent_task_id) ==
    /\ RaceOver
    /\ create_task(parent_task_id, NoCode)

Init ==
    /\ tasks = <<>>
    /\ last = [op |-> "none", id |-> 0, code |-> NoCode, res |-> "ok"]
    /\ sess = Idle
    /\ deps = <<>>
    /\ docs = <<>>
    /\ edges = {}
    /\ work = NoRace

CreateTask == \E p \in 0..MaxId, c \in Codes \cup {NoCode} : create_task(p, c)
MoveTask   == \E t \in 1..MaxId, p \in 0..MaxId : move_task(t, p)
DeleteTask == \E t \in 1..MaxId, c \in BOOLEAN : delete_task(t, c)

Next == CreateTask \/ MoveTask \/ DeleteTask

Spec == Init /\ [][Next]_vars

\* the progress roll-up over trees built by creates with generated codes
CreateTaskAuto    == \E p \in 0..MaxId : create_task(p, NoCode)
UpdateProgress    == \E t \in 1..MaxId, v \in ProgressInputs : update_task_progress(t, v)
CalculateProgress == \E t \in 1..MaxId : calculate_progress(t)

NextProgress == CreateTaskAuto \/ UpdateProgress \/ CalculateProgress

SpecProgress == Init /\ [][NextProgress]_vars

\* the dependency graph over tasks without parents
CreateRoot    == create_task(NoParent, NoCode)
AddDependency == \E a, b \in 1..MaxId : create_dependency(a, b)

BuildGraph    == get_dependency_graph({})

NextDeps == CreateRoot \/ AddDependency \/ BuildGraph

SpecDeps == Init /\ [][NextDeps]_vars

\* the dependency graph with a filter on the task ids ({} for no filter), on
\* the tables that create_dependency builds over MaxId tasks without parents:
\* up to GraphEdges rows, no pair twice, no task with itself
RECURSIVE GraphTasks(_)
GraphTasks(n) ==
    IF n = 0 THEN <<>>
    ELSE LET T == GraphTasks(n - 1)
         IN  Put(T, n, NewTaskRow(T, NoParent, GenCode(T)))

GraphTables(n) ==
    LET rows == {r \in [dependent : 1..MaxId, prerequisite : 1..MaxId] :
                    r.dependent # r.prerequisite}
    IN  UNION {{D \in [1..m -> rows] : \A i, j \in 1..m : i # j => D[i] # D[j]} :
                  m \in 0..n}

InitGraph ==
    /\ tasks = GraphTasks(MaxId)
    /\ deps \in GraphTables(GraphEdges)
    /\ last = [op |-> "none", id |-> 0, code |-> NoCode, res |-> "ok"]
    /\ sess = Idle
    /\ docs = <<>>
    /\ edges = {}
    /\ work = NoRace

\* the call writes nothing, so it is explored on each table once
BuildFilteredGraph ==
    /\ last.op = "none"
    /\ \E task_ids \in SUBSET (1..MaxId) : get_dependency_graph(task_ids)

NextGraph == BuildFilteredGraph

SpecGraph == InitGraph /\ [][NextGraph]_vars

\* the task id lists callers pass: every list of 1..MaxList ids
TaskIdLists == UNION {[1..n -> 1..MaxId] : n \in 1..MaxList}

AddDocument      == add_document
AssignResource   == \E r \in 1..MaxDoc, l \in TaskIdLists : assign_resource_to_tasks(r, l)
UnassignResource == \E r \in 1..MaxDoc, t \in 1..MaxId : unassign_resource_from_task(r, t)
InheritParentResources == \E t \in 1..MaxId : inherit_parent_resources(t)
ArchiveResource   == \E r \in 1..MaxDoc : archive_resource(r)
UnarchiveResource == \E r \in 1..MaxDoc : unarchive_resource(r)

\* resources assigned to the tasks of a tree
NextResources ==
    \/ CreateTaskAuto
    \/ DeleteTask
    \/ AddDocument
    \/ AssignResource
    \/ UnassignResource
    \/ InheritParentResources
    \/ ArchiveResource
    \/ UnarchiveResource

SpecResources == Init /\ [][NextResources]_vars

\* one resource assigned to one task at a time, over tasks without parents
AssignOne == \E r \in 1..MaxDoc, t \in 1..MaxId : assign_resource_to_tasks(r, <<t>>)

NextAssign ==
    \/ CreateRoot
    \/ AddDocument
    \/ AssignOne
    \/ UnassignResource
    \/ ArchiveResource

SpecAssign == Init /\ [][NextAssign]_vars

\* resources of ancestors seen from the tasks below them
GetInheritedResources == \E t \in 1..MaxId : read_inherited_resources(t)

NextInherit ==
    \/ CreateTaskAuto
    \/ AddDocument
    \/ AssignOne
    \/ UnassignResource
    \/ InheritParentResources
    \/ GetInheritedResources

SpecInherit == Init /\ [][NextInherit]_vars

\* the same with the tasks moved between the reads
NextInheritMoves == NextInherit \/ MoveTask

SpecInheritMoves == Init /\ [][NextInheritMoves]_vars

\* the same with the tasks moved and deleted after the rows were inherited
NextInheritTree == NextInheritMoves \/ DeleteTask

SpecInheritTree == Init /\ [][NextInheritTree]_vars

\* two simultaneous requests for the same edge
RaceBegin ==
    \/ \E a, b \in 1..MaxId : race_begin("add_dep", a, b)
    \/ \E r \in 1..MaxDoc, t \in 1..MaxId : race_begin("assign", r, t)
DependencyLookup == \E c \in Callers : dependency_lookup(c)
DependencyInsert == \E c \in Callers : dependency_insert(c)
AssignmentLookup == \E c \in Callers : assignment_lookup(c)
AssignmentInsert == \E c \in Callers : assignment_insert(c)

NextRace ==
    \/ CreateRoot
    \/ AddDocument
    \/ RaceBegin
    \/ DependencyLookup
    \/ DependencyInsert
    \/ AssignmentLookup
    \/ AssignmentInsert

SpecRace == Init /\ [][NextRace]_vars

\* two simultaneous moves; a task is never moved under itself here
MoveArgs == {a \in [task_id : 1..MaxId, new_parent_id : {NoParent} \cup 1..MaxId] :
                a.task_id # a.new_parent_id}
CreateBetweenRaces == \E p \in {NoParent} \cup 1..MaxId : create_between_races(p)
RaceMoveBegin  == \E a1, a2 \in MoveArgs : race_move_begin(a1, a2)
RaceMoveRead   == \E c \in Callers : race_move_read(c)
RaceMoveCommit == \E c \in Callers : race_move_commit(c)

NextMoveRace ==
    \/ CreateBetweenRaces
    \/ RaceMoveBegin
    \/ RaceMoveRead
    \/ RaceMoveCommit

SpecMoveRace == Init /\ [][NextMoveRace]_vars

\* the context of a task, on the stores that creates and assignments build:
\* three tasks in each shape create_task gives them, and up to CtxEdges rows
\* of document_tasks for CtxDocs documents
CtxTree(p2, p3) ==
    LET T1 == Put(<<>>, 1, NewTaskRow(<<>>, NoParent, GenCode(<<>>)))
        T2 == Put(T1, 2, NewTaskRow(T1, p2, GenCode(T1)))
    IN  Put(T2, 3, NewTaskRow(T2, p3, GenCode(T2)))

\* the sets of rows: each pair of a document and a task has no row, a direct
\* row or an inherited row
CtxStores(n) ==
    LET pairs   == (1..CtxDocs) \X (1..MaxId)
        rows(f) == {[doc |-> p[1], task |-> p[2], inherited |-> f[p] = "inherited"] :
                        p \in {q \in pairs : f[q] # "none"}}
    IN  {E \in {rows(f) : f \in [pairs -> {"none", "direct", "inherited"}]} :
            Cardinality(E) <= n}

InitContext ==
    /\ \E p2 \in 0..1, p3 \in 0..2 : tasks = CtxTree(p2, p3)
    /\ edges \in CtxStores(CtxEdges)
    /\ docs = [d \in 1..CtxDocs |-> IF EdgesOf(edges, d) # {} THEN "assigned"
                                     ELSE "unassigned"]
    /\ last = [op |-> "none", id |-> 0, code |-> NoCode, res |-> "ok"]
    /\ sess = Idle
    /\ deps = <<>>
    /\ work = NoRace

\* the search is called for the scopes self and inherit only; a call leaves
\* the store as it is, so it is explored on each store once
AssembleContext ==
    /\ last.op = "none"
    /\ \E t \in 1..MaxId, scope \in Scopes, k \in 1..MaxTopK :
          \E newest_first \in Orders(edges),
             found \in IF scope \in {"self", "inherit"} THEN SearchResults(docs, k)
                       ELSE {<<>>} :
              assemble_context(t, scope, k, newest_first, found)

NextContext == AssembleContext

SpecContext == InitContext /\ [][NextContext]_vars

\* the two task-update paths
UpdateTask   == \E t \in 1..MaxId, st \in Statuses \cup {NoStatus}, o \in BOOLEAN :
                    update_task_route(t, st, o)
UpdateTaskV1 == \E t \in 1..MaxId, st \in Statuses \cup {NoStatus}, o \in BOOLEAN :
                    update_task_v1(t, st, o)

NextStatus == CreateRoot \/ UpdateTask \/ UpdateTaskV1

SpecStatus == Init /\ [][NextStatus]_vars

\* one caller running update_task_progress statement by statement, with
\* interruptions
ProgressBegin == \E t \in 1..MaxId, v \in ProgressInputs : progress_begin(t, v)

NextProgressSteps ==
    \/ CreateTaskAuto
    \/ ProgressBegin
    \/ progress_store
    \/ progress_recalc
    \/ progress_interrupt

SpecProgressSteps == Init /\ [][NextProgressSteps]_vars

\* one caller running move_task statement by statement, with interruptions
MoveBegin   == \E t \in 1..MaxId, p \in 0..MaxId : move_begin(t, p)
MoveRewrite == \E d \in 1..MaxId : move_rewrite(d)

NextMoveSteps ==
    \/ CreateTaskAuto
    \/ MoveBegin
    \/ move_set_task
    \/ MoveRewrite
    \/ move_commit
    \/ move_interrupt

SpecMoveSteps == Init /\ [][NextMoveSteps]_vars

\* ================================================================ claims

\* C1: every task with a parent p has path = p.path + "/" + code, and every
\* task without a parent has path = code.
PathIsParentPathPlusCode ==
    \A t \in Ids(tasks) :
        IF tasks[t].parent # NoParent
        THEN /\ tasks[t].parent \in Ids(tasks)
             /\ tasks[t].path = Append(tasks[tasks[t].parent].path, tasks[t].code)
        ELSE tasks[t].path = <<tasks[t].code>>

RECURSIVE RootWithin(_, _, _)
\* following parent references from t reaches a root in at most n steps
RootWithin(T, t, n) ==
    IF T[t].parent = NoParent THEN TRUE
    ELSE IF n = 0 \/ T[t].parent \notin Ids(T) THEN FALSE
    ELSE RootWithin(T, T[t].parent, n - 1)

\* C3: the parent relation is a forest: from every task the parent
\* references lead to a root without revisiting a task.
ParentRelationIsForest ==
    \A t \in Ids(tasks) : RootWithin(tasks, t, Cardinality(Ids(tasks)) - 1)

\* C4: MoveTask(t, d) with d in GetDescendants(t) fails with
\* InvalidOperation and leaves every row unchanged.
MoveUnderDescendantRejected ==
    [][last'.op = "move" =>
          \A t \in Ids(tasks) : \A d \in get_task_descendants(tasks, t) :
              move_task(t, d) => (last'.res = "InvalidOperation" /\ tasks' = tasks)]_vars

\* a move was refused as a circular reference
MoveRefusedAsCircular ==
    /\ last.op = "move" /\ last.res = "InvalidOperation"
    /\ \E t \in Ids(tasks) : get_task_descendants(tasks, t) # {}

\* C5: MoveTask(t, t) fails with InvalidOperation: no accepted move leaves
\* the moved task as its own parent.
SelfMoveRejected ==
    ~ (/\ last.op = "move" /\ last.res = "ok"
       /\ last.id \in Ids(tasks)
       /\ tasks[last.id].parent = last.id)

\* C6: after an accepted MoveTask(t, newParent) every task that
\* GetDescendants(t) held before the move has a path that starts with t's
\* new path followed by "/", and its level changed by the delta of t's.
MoveCarriesDescendants ==
    [][(last'.op = "move" /\ last'.res = "ok") =>
          \A d \in get_task_descendants(tasks, last'.id) :
              /\ d \in Ids(tasks')
              /\ Like(tasks'[last'.id].path, tasks'[d].path)
              /\ tasks'[d].level - tasks[d].level
                     = tasks'[last'.id].level - tasks[last'.id].level]_vars

\* a move changed the level of a task that has descendants
MovedWithDescendants ==
    /\ last.op = "move" /\ last.res = "ok"
    /\ last.id \in Ids(tasks)
    /\ tasks[last.id].level > 0
    /\ \E d \in get_task_descendants(tasks, last.id) : tasks[d].parent = last.id

\* C7: MoveTask is atomic: while a call is in progress the stored rows do
\* not change, except that its commit stores the new parent, level and path
\* of the task and the rewritten level and path of every descendant at once.
MoveIsAllOrNothing ==
    [][sess.pc # "idle" =>
          \/ tasks' = tasks
          \/ /\ tasks' = move_task_rows(tasks, sess.task_id, sess.new_parent_id)
             /\ sess'.pc = "idle"]_vars

\* a call is under way with rewritten rows that the store does not hold yet
MoveUncommitted ==
    /\ sess.pc = "rewrite"
    /\ tasks[sess.task_id].parent # sess.task_id
    /\ sess.new_parent_id # sess.task_id
    /\ \E d \in DOMAIN sess.dirty : d # sess.task_id /\ sess.dirty[d] # tasks[d]

\* the stored progress of a is the floor of the mean of its children's
IsChildrenMean(T, a) ==
    /\ get_task_children(T, a) # {}
    /\ T[a].progress = SumProgress(T, get_task_children(T, a))
                            \div Cardinality(get_task_children(T, a))

\* C8: after an accepted UpdateProgress on a leaf, every ancestor of the
\* leaf up to the root stores the floor of the mean of its children.
AncestorsRolledUp ==
    (/\ last.op = "progress" /\ last.res = "ok"
     /\ get_task_children(tasks, last.id) = {})
        => \A a \in Range(get_task_ancestors(tasks, last.id)) : IsChildrenMean(tasks, a)

\* C9: every task with a child stores the floor of the mean of its
\* children's progress (a value set on it directly is not kept).
ParentProgressIsDerived ==
    \A t \in Ids(tasks) :
        get_task_children(tasks, t) # {} => IsChildrenMean(tasks, t)

\* C10: no two tasks hold the same code, and CreateTask with an explicit
\* code that a task already holds fails with Conflict and adds no row.
CodesUniqueAndDuplicateRejected ==
    [][/\ \A a, b \in Ids(tasks') : a # b => tasks'[a].code # tasks'[b].code
       /\ last'.op = "create" =>
              \A c \in {x \in Codes : \E t \in Ids(tasks) : tasks[t].code = x} :
                  \A p \in 0..MaxId :
                      create_task(p, c) => (last'.res = "Conflict" /\ tasks' = tasks)]_vars

\* a create with an explicit code was refused as a duplicate
ExplicitDuplicateRefused ==
    /\ last.op = "create" /\ last.res = "Conflict"
    /\ last.code \in Codes
    /\ \E t \in Ids(tasks) : tasks[t].code = last.code

\* C11: DeleteTask leaves no task whose parent is gone: without cascade on a
\* task with children it fails with InvalidOperation and removes no row; with
\* cascade it succeeds and removes the task and every descendant, so that no
\* remaining task refers to a removed parent.
DeleteLeavesNoOrphan ==
    [][last'.op = "delete" =>
          /\ \A c \in Ids(tasks') : tasks'[c].parent \in Ids(tasks') \cup {NoParent}
          /\ \A t \in Ids(tasks) :
                /\ (get_task_children(tasks, t) # {} /\ delete_task(t, FALSE))
                       => (last'.res = "InvalidOperation" /\ tasks' = tasks)
                /\ delete_task(t, TRUE)
                       => /\ last'.res = "ok"
                          /\ t \notin Ids(tasks')
                          /\ get_task_descendants(tasks, t) \cap Ids(tasks') = {}
                          /\ \A k \in Ids(tasks') : tasks'[k] = tasks[k]]_vars

\* a delete without cascade was refused on a task that has a child below it
DeleteRefusedForChildren ==
    /\ last.op = "delete" /\ last.res = "InvalidOperation"
    /\ \E t, c \in Ids(tasks) : t # c /\ tasks[c].parent = t

\* the number of stored edges for the ordered pair
EdgeCount(D, dependent_task_id, prerequisite_task_id) ==
    Cardinality({i \in 1..Len(D) : /\ D[i].dependent = dependent_task_id
                                   /\ D[i].prerequisite = prerequisite_task_id})

\* C12: for existing tasks a # b AddDependency(a, b) called twice returns
\* success both times and leaves exactly one edge for the pair;
\* AddDependency(a, a) returns failure; the stored edges hold no self-loop
\* and no two edges for one ordered pair.
DependencyAddIsIdempotent ==
    /\ \A i \in 1..Len(deps) : deps[i].dependent # deps[i].prerequisite
    /\ \A a, b \in 1..MaxId : EdgeCount(deps, a, b) <= 1
    /\ \A a \in 1..MaxId : create_dependency_result(tasks, a, a) = "False"
    /\ \A a, b \in Ids(tasks) :
          a # b =>
              LET once  == create_dependency_rows(deps, a, b)
                  twice == create_dependency_rows(once, a, b)
              IN  /\ create_dependency_result(tasks, a, b) = "True"
                  /\ EdgeCount(once, a, b) = 1
                  /\ twice = once

\* a repeated AddDependency returned success and added no row
DependencyAddedTwice ==
    /\ last.op = "add_dep" /\ last.res = "True" /\ last.id = 0
    /\ Len(deps) > 0

\* the edge prerequisite a -> dependent b is stored
HasEdge(D, a, b) == DependencyExists(D, b, a)

\* the stored edges contain the cycle a -> b -> c -> a
HasTriangle(D, a, b, c) ==
    /\ Cardinality({a, b, c}) = 3
    /\ HasEdge(D, a, b) /\ HasEdge(D, b, c) /\ HasEdge(D, c, a)

\* some reported cycle contains a, b and c
CycleThrough(cycles, a, b, c) ==
    \E i \in 1..Len(cycles) :
        {ToString(a), ToString(b), ToString(c)} \subseteq Range(cycles[i])

\* C13 (as stated): whenever the edges a -> b, b -> c and c -> a are stored,
\* BuildGraph reports a cycle that contains a, b and c.
TriangleReportedWhole ==
    last.op = "graph" =>
        \A a, b, c \in Ids(tasks) :
            HasTriangle(deps, a, b, c) => CycleThrough(last.cycles, a, b, c)

\* the edges a -> b, b -> c, c -> a are the only ones that leave a, b and c
TriangleAlone(D, a, b, c) ==
    /\ HasTriangle(D, a, b, c)
    /\ \A i \in 1..Len(D) :
          D[i].prerequisite \in {a, b, c} =>
              <<D[i].prerequisite, D[i].dependent>> \in {<<a, b>>, <<b, c>>, <<c, a>>}

\* C13 (amended): AddDependency between two existing, different tasks
\* succeeds and stores the edge also when the edge closes a cycle; once
\* a -> b, b -> c and c -> a are stored BuildGraph reports at least one
\* cycle, and one that contains a, b and c when no other edge leaves a, b
\* or c.
CycleStoredAndReported ==
    /\ \A a, b \in Ids(tasks) :
          (a # b /\ HasEdge(deps, b, a)) =>
              /\ create_dependency_result(tasks, b, a) = "True"
              /\ HasEdge(create_dependency_rows(deps, b, a), a, b)
    /\ last.op = "graph" =>
          \A a, b, c \in Ids(tasks) :
              HasTriangle(deps, a, b, c) =>
                  /\ last.cycles # <<>>
                  /\ TriangleAlone(deps, a, b, c)
                         => CycleThrough(last.cycles, a, b, c)

\* BuildGraph ran on a stored cycle a -> b -> c -> a
TriangleGraphBuilt ==
    /\ last.op = "graph"
    /\ \E a, b, c \in Ids(tasks) :
          TriangleAlone(deps, a, b, c) /\ CycleThrough(last.cycles, a, b, c)

\* C14: every resource that is not archived is "assigned" exactly when some
\* assignment edge references it, and "unassigned" otherwise.
StatusFollowsEdges ==
    \A r \in Ids(docs) :
        docs[r] # "archived" =>
            docs[r] = (IF EdgesOf(edges, r) # {} THEN "assigned" ELSE "unassigned")

\* C15: for a resource r without edges and an existing task t,
\* AssignResource(r, [t]) followed by UnassignResource(r, t) leaves r with
\* no edge and with assignment_status "unassigned".
AssignThenUnassignRestores ==
    [][(/\ last.op = "assign" /\ last.res = "ok"
        /\ Len(last.created) = 1
        /\ EdgesOf(edges, last.id) = {[doc |-> last.id, task |-> last.created[1],
                                       inherited |-> FALSE]}
        /\ unassign_resource_from_task(last.id, last.created[1]))
       => /\ last'.res = "True"
          /\ EdgesOf(edges', last.id) = {}
          /\ docs'[last.id] = "unassigned"]_vars

\* an unassignment removed the last edge of a resource
LastEdgeRemoved ==
    /\ last.op = "unassign" /\ last.res = "True"
    /\ EdgesOf(edges, last.id) = {}
    /\ docs[last.id] = "unassigned"

\* C16: AssignResource(r, taskIds) fails with NotFound and creates no edge
\* exactly when r or some listed id does not exist; when all exist it
\* succeeds, every listed id ends up with an edge to r and is reported as
\* created (no edge before) or as skipped (edge before).
AssignFailsOnlyOnMissing ==
    [][last'.op = "assign" =>
          \A r \in 1..MaxDoc : \A l \in TaskIdLists :
              assign_resource_to_tasks(r, l) =>
                  IF r \notin Ids(docs) \/ \E i \in 1..Len(l) : l[i] \notin Ids(tasks)
                  THEN last'.res = "NotFound" /\ edges' = edges
                  ELSE /\ last'.res = "ok"
                       /\ \A i \in 1..Len(l) :
                             /\ EdgeExists(edges', r, l[i])
                             /\ l[i] \in Range(last'.created) \cup Range(last'.skipped)
                             /\ l[i] \in Range(last'.created) => ~EdgeExists(edges, r, l[i])
                             /\ EdgeExists(edges, r, l[i]) => l[i] \in Range(last'.skipped)]_vars

\* the resources with a direct edge to a task that has t among the tasks
\* below it
DirectOnAncestors(T, R, E, t) ==
    {r \in Ids(R) : \E a \in Ids(T) :
        /\ t \in get_task_descendants(T, a)
        /\ [doc |-> r, task |-> a, inherited |-> FALSE] \in E}

\* C17: GetInheritedResources(t) returns, and returns exactly the resources
\* that have a direct edge to at least one ancestor of t, and nothing for a
\* root task.
InheritedAreDirectOfAncestors ==
    (last.op = "inherited" /\ last.id \in Ids(tasks)) =>
        /\ last.res = "ok"
        /\ {r.id : r \in last.rows} = DirectOnAncestors(tasks, docs, edges, last.id)
        /\ tasks[last.id].parent = NoParent => last.rows = {}

\* C18: the list GetInheritedResources(t) returns holds no resource id more
\* than once.
InheritedDeduplicated ==
    last.op = "inherited" =>
        \A x, y \in last.rows : x.id = y.id => x = y

\* C19: two simultaneous AddDependency calls, or two simultaneous
\* AssignResource calls, for the same edge between stored rows both end
\* without an error, under every interleaving, and exactly one edge for the
\* pair exists afterwards.
SameEdgeRaceIsIdempotent ==
    (work.op # "none" /\ \A c \in Callers : work.pc[c] = "done") =>
        /\ \A c \in Callers : work.res[c] # "IntegrityError"
        /\ (work.op = "add_dep" /\ \E c \in Callers : work.res[c] = "True")
               => EdgeCount(deps, work.x, work.y) = 1
        /\ (work.op = "assign" /\ \E c \in Callers : work.res[c] = "ok")
               => Cardinality({e \in edges : e.doc = work.x /\ e.task = work.y}) = 1

\* the tree after one call alone
MoveAlone(T, a) ==
    IF move_task_check(T, a.task_id, a.new_parent_id) = "ok"
    THEN move_task_rows(T, a.task_id, a.new_parent_id)
    ELSE T

Subtree(T, t) == IF t \in Ids(T) THEN {t} \cup get_task_descendants(T, t) ELSE {}

Overlapping(T, a1, a2) == Subtree(T, a1.task_id) \cap Subtree(T, a2.task_id) # {}

\* C20: once two simultaneous MoveTask calls on overlapping subtrees have
\* both ended (and no task was created since), the tree is the one that
\* running the two calls one after the other, in one of the two orders, gives.
ConcurrentMovesSerialize ==
    (/\ work.op = "move"
     /\ \A c \in Callers : work.pc[c] = "done"
     /\ Ids(tasks) = Ids(work.base)
     /\ Overlapping(work.base, work.arg[1], work.arg[2]))
        => \/ tasks = MoveAlone(MoveAlone(work.base, work.arg[1]), work.arg[2])
           \/ tasks = MoveAlone(MoveAlone(work.base, work.arg[2]), work.arg[1])

\* C21: UpdateProgress is atomic: while a call is in progress the stored
\* rows do not change, except that the new progress of the task and the
\* recalculated progress of its parent are stored at once, at the end of the
\* call; an interrupted call leaves no state with the first without the second.
ProgressIsAllOrNothing ==
    [][sess.pc \in {"store", "recalc"} =>
          \/ tasks' = tasks
          \/ /\ tasks' = update_task_progress_rows(tasks, sess.task_id, sess.progress)
             /\ sess'.pc = "idle"]_vars

\* the status changes the state machine allows
AllowedStatusChange ==
    {<<"new", "in_progress">>, <<"new", "blocked">>, <<"in_progress", "done">>,
     <<"in_progress", "blocked">>, <<"blocked", "in_progress">>}

\* C22: on every task-update path the status of a task changes only along
\* new->in_progress, new->blocked, in_progress->done, in_progress->blocked
\* and blocked->in_progress; a request for any other change is rejected and
\* leaves the status as it was, so done is terminal.
StatusFollowsStateMachine ==
    [][\A t \in Ids(tasks) :
          tasks'[t].status # tasks[t].status
              => <<tasks[t].status, tasks'[t].status>> \in AllowedStatusChange]_vars

\* the resources with a direct edge to t
DirectOf(E, t) == {e.doc : e \in {x \in E : x.task = t /\ ~x.inherited}}

\* the resources GetInheritedResources(t) returns
InheritedOf(T, R, E, t) == {r.id : r \in get_inherited_resources(T, R, E, t)}

\* C23: AssembleContext(t, "inherit", k) includes every resource that is
\* directly assigned to an ancestor of t and not to t, tagged inherited with
\* priority 0.9 and placed after all task-tagged documents, whenever the
\* direct resources of t and the inherited resources number at most k.
InheritedIncludedAfterOwn ==
    (last.op = "context" /\ last.scope = "inherit") =>
        LET direct    == DirectOf(edges, last.id)
            inherited == InheritedOf(tasks, docs, edges, last.id)
            documents == last.documents
        IN  Cardinality(direct) + Cardinality(inherited) <= last.top_k =>
                \A r \in inherited \ direct :
                    \E i \in 1..Len(documents) :
                        /\ documents[i] = [id |-> r, source |-> "inherited",
                                           similarity |-> "0.9"]
                        /\ \A j \in 1..Len(documents) :
                               documents[j].source = "task" => j < i

\* C24: for every scope and every result of the semantic search, no two
\* documents AssembleContext returns have the same resource id.
ContextIsDeduplicated ==
    last.op = "context" =>
        \A i, j \in 1..Len(last.documents) :
            i # j => last.documents[i].id # last.documents[j].id

\* C25: AssembleContext(t, "self", k) returns the direct resources of t
\* first, all of them when they are at most k, and general search results
\* only in the places that remain after them.
SelfTakesDirectFirst ==
    (last.op = "context" /\ last.scope = "self") =>
        LET direct    == DirectOf(edges, last.id)
            documents == last.documents
            m         == Min(Cardinality(direct), last.top_k)
        IN  /\ Len(documents) >= m
            /\ \A i \in 1..Len(documents) :
                   IF i <= m
                   THEN documents[i].source = "task" /\ documents[i].id \in direct
                   ELSE documents[i].source = "general"
            /\ Cardinality(direct) <= last.top_k
                   => {documents[i].id : i \in 1..m} = direct

\* the resources with an edge, direct or inherited, to t
AssignedTo(E, t) == {e.doc : e \in {x \in E : x.task = t}}

\* C26: InheritParentResources(t) creates an edge (r, t, inherited = TRUE)
\* for every resource r that GetInheritedResources(t) returns and that has
\* no edge to t yet, reports their number, leaves every existing edge as it
\* is, and an immediately repeated call would create no edge (count 0).
InheritMaterializesOnce ==
    [][(last'.op = "inherit" /\ last'.res = "ok") =>
          LET t     == last'.id
              fresh == InheritedOf(tasks, docs, edges, t) \ AssignedTo(edges, t)
          IN  /\ edges \subseteq edges'
              /\ edges' \ edges = {[doc |-> r, task |-> t, inherited |-> TRUE] : r \in fresh}
              /\ last'.created = fresh
              /\ InheritedOf(tasks', docs', edges', t) \ AssignedTo(edges', t) = {}]_vars

\* an inheritance created an edge
InheritedBesideDirect ==
    /\ last.op = "inherit" /\ last.res = "ok"
    /\ last.created # {}
    /\ \E e \in edges : e.task = last.id /\ e.doc \in last.created /\ e.inherited

\* the pairs <<prerequisite, dependent>> of the rows, as node names
EdgePairs(D) == {<<ToString(D[i].prerequisite), ToString(D[i].dependent)>> : i \in 1..Len(D)}

RECURSIVE Closure(_, _)
\* the pairs joined by a walk of at most 2^n edges
Closure(Rel, n) ==
    IF n = 0 THEN Rel
    ELSE Closure(Rel \cup {<<x[1][1], x[2][2]>> : x \in {y \in Rel \X Rel : y[1][2] = y[2][1]}},
                 n - 1)

AssignedIsDirect ==
    (last.op = "assign" /\ last.res = "ok") =>
        \A t \in Range(last.created) \cup Range(last.skipped) :
            \A newest_first \in Orders(edges) :
                last.id \in Range(get_task_resources(docs, newest_first, t, FALSE))

\* C29: CreateTask with the code omitted never answers Conflict, also after
\* tasks were deleted or created with explicit codes: the generated code is
\* held by no existing task.
GeneratedCodeIsFree ==
    /\ ~CodeExists(tasks, GenCode(tasks))
    /\ ~(last.op = "create" /\ last.code = NoCode /\ last.res = "Conflict")

RECURSIVE AncestorsOf(_, _, _)
\* the tasks above t along parent, at most n steps up
AncestorsOf(T, t, n) ==
    IF n = 0 \/ t \notin Ids(T) THEN {}
    ELSE IF T[t].parent = NoParent \/ T[t].parent \notin Ids(T) THEN {}
    ELSE {T[t].parent} \cup AncestorsOf(T, T[t].parent, n - 1)

\* C30: every row of document_tasks with inherited = TRUE is justified by
\* the tree as it is now: some ancestor of its task holds the resource
\* with inherited = FALSE; also after UnassignResource on that ancestor,
\* MoveTask of the task and DeleteTask.
InheritedEdgesAreJustified ==
    \A e \in edges :
        e.inherited =>
            \E a \in AncestorsOf(tasks, e.task, MaxId) :
                [doc |-> e.doc, task |-> a, inherited |-> FALSE] \in edges
====
